---- MODULE Spec2Model ----
(***************************************************************************)
(* State-machine model of the DRAGON analyzer core:                        *)
(*   - dragon::Unpacker (src/src/Unpack.cxx) driving the timestamp         *)
(*     coincidence queue (tstamp::Queue, declared in TStamp.hxx),          *)
(*   - the CAEN ADC buffer decoder (vme/Adc.cxx, vme/Vme.hxx),             *)
(*   - the validity-guarded derivations of utils/Functions.hxx.            *)
(***************************************************************************)
EXTENDS Integers, Sequences, FiniteSets, TLC

\* ------------------------------------------------------------------ bounds
MaxEvents == 3
MaxTs == 2
MaxWindow == 1

\* ------------------------------------------------------- Unpacker state
VARIABLES singlesMode, fCoincWindow, pending, coincs, singles, skipped,
          fDiag, fUnpacked, arrival, ret, fault, lastOp

\* The objects the Unpacker points to: the detector records (the event each
\* was last assembled from), the scalers, the run parameters and the
\* database variables.
VARIABLES fHead, fTail, fCoinc, fHeadScaler, fTailScaler, fRunpar, variables

\* The detector records.
dets == <<fHead, fTail, fCoinc>>

\* The scalers, the run parameters and the variables.
runs == <<fHeadScaler, fTailScaler, fRunpar, variables>>

qvars == <<singlesMode, fCoincWindow, pending, coincs, singles, skipped,
           fDiag, fUnpacked, arrival, ret, fault, lastOp, dets, runs>>

\* ------------------------------------------------ ADC decoder state
\* The module record (vme::caen::Adc<32>), and the last decoder call: its
\* kind, its input (the words handed to it, and whether the bank was found),
\* the value it returned and whether an exception left it.
VARIABLES adc, adcOp, adcBank, adcFound, adcRet, adcThrew

avars == <<adc, adcOp, adcBank, adcFound, adcRet, adcThrew>>

\* ------------------------------------------- utils/Functions.hxx state
\* The last derivation called: its kind, its inputs (those of another kind
\* of call cleared) and its result, a number (fnResult) or a truth value
\* (fnValid).
VARIABLES fnOp, fnT1, fnT2, fnArr, fnResult, fnValid

fvars == <<fnOp, fnT1, fnT2, fnArr, fnResult, fnValid>>

vars == <<qvars, avars, fvars>>

\* Event codes (utils/definitions.h), kept symbolic.
DRAGON_HEAD_EVENT == "DRAGON_HEAD_EVENT"
DRAGON_TAIL_EVENT == "DRAGON_TAIL_EVENT"
DRAGON_HEAD_SCALER == "DRAGON_HEAD_SCALER"
DRAGON_TAIL_SCALER == "DRAGON_TAIL_SCALER"
DRAGON_COINC_EVENT == "DRAGON_COINC_EVENT"
DRAGON_RUN_PARAMETERS == "DRAGON_RUN_PARAMETERS"
DRAGON_TSTAMP_DIAGNOSTICS == "DRAGON_TSTAMP_DIAGNOSTICS"
MIDAS_BOR == "MIDAS_BOR"
MIDAS_EOR == "MIDAS_EOR"
UNKNOWN_ID == "UNKNOWN_ID"

EventIds == {DRAGON_HEAD_EVENT, DRAGON_TAIL_EVENT, DRAGON_HEAD_SCALER,
             DRAGON_TAIL_SCALER, MIDAS_BOR, MIDAS_EOR, UNKNOWN_ID}

Timestamps == 0 .. MaxTs
Windows == 0 .. MaxWindow

\* A null event pointer (midas::CoincEvent::fGamma / fHeavyIon == 0).
NullEvent == [id |-> 0, sub |-> "none", ts |-> 0]

\* A midas::Event as the queue sees it: its arrival order, its subsystem
\* (the event id) and its trigger time.
MakeEvent(n, evtId, ts) == [id |-> n, sub |-> evtId, ts |-> ts]

DiagZero == [pushedHead |-> 0, pushedTail |-> 0, matches |-> 0,
             unmatched |-> 0, outOfOrder |-> 0]

Abs(x) == IF x < 0 THEN -x ELSE x

RemoveAt(s, i) == SubSeq(s, 1, i - 1) \o SubSeq(s, i + 1, Len(s))

\* --------------------------------------------------- CoincidenceQueue
\* Indices of the pending events of the other subsystem.
Candidates(q, e) == {i \in 1 .. Len(q) : q[i].sub # e.sub}

Distance(a, b) == Abs(a.ts - b.ts)

\* Mutant: among equally close candidates the latest arrival wins.
ClosestCandidateLatest(q, e) ==
  CHOOSE i \in Candidates(q, e) :
    \A j \in Candidates(q, e) :
      \/ Distance(q[i], e) < Distance(q[j], e)
      \/ Distance(q[i], e) = Distance(q[j], e) /\ i >= j

\* The candidate closest in timestamp; among equally close ones the one that
\* arrived first (pending is kept in arrival order).
ClosestCandidate(q, e) ==
  CHOOSE i \in Candidates(q, e) :
    \A j \in Candidates(q, e) :
      \/ Distance(q[i], e) < Distance(q[j], e)
      \/ Distance(q[i], e) = Distance(q[j], e) /\ i <= j

\* Mutant: a pair one tick outside the window is still matched.
PushWide(q, e, window) ==
  IF Candidates(q, e) = {}
  THEN [pending |-> Append(q, e), pair |-> <<>>]
  ELSE LET i == ClosestCandidate(q, e)
       IN IF Distance(q[i], e) <= window + 1
          THEN [pending |-> RemoveAt(q, i), pair |-> <<q[i], e>>]
          ELSE [pending |-> Append(q, e), pair |-> <<>>]

\* push: the pending storage after the push and the pair emitted, if any.
Push(q, e, window) ==
  IF Candidates(q, e) = {}
  THEN [pending |-> Append(q, e), pair |-> <<>>]
  ELSE LET i == ClosestCandidate(q, e)
       IN IF Distance(q[i], e) <= window
          THEN [pending |-> RemoveAt(q, i), pair |-> <<q[i], e>>]
          ELSE [pending |-> Append(q, e), pair |-> <<>>]

\* An out-of-order arrival: older than the oldest pending event of its own
\* subsystem.
OutOfOrder(q, e) ==
  /\ \E i \in 1 .. Len(q) : q[i].sub = e.sub
  /\ \A i \in 1 .. Len(q) : q[i].sub = e.sub => e.ts < q[i].ts

\* The counters after a push of e that emitted `pair`.
DiagPush(d, q, e, pair) ==
  [d EXCEPT !.pushedHead = @ + (IF e.sub = DRAGON_HEAD_EVENT THEN 1 ELSE 0),
            !.pushedTail = @ + (IF e.sub = DRAGON_TAIL_EVENT THEN 1 ELSE 0),
            !.matches = @ + (IF pair # <<>> THEN 1 ELSE 0),
            !.outOfOrder = @ + (IF OutOfOrder(q, e) THEN 1 ELSE 0)]

\* flush: every event pending at the call is evicted, oldest first.
Flush(q, flushTime) == [pending |-> <<>>, evicted |-> q]

\* flush_iterative: the oldest pending event is evicted; the depth left.
FlushIterative(q) ==
  IF q = <<>>
  THEN [pending |-> q, evicted |-> <<>>, depth |-> 0]
  ELSE [pending |-> Tail(q), evicted |-> <<Head(q)>>, depth |-> Len(q) - 1]

DiagEvict(d, evicted) == [d EXCEPT !.unmatched = @ + Len(evicted)]

\* ------------------------------------------------------------ Unpacker
\* midas::CoincEvent(event1, event2): the head event is the gamma, the tail
\* event the heavy ion; a missing side stays null.
CoincEvent(event1, event2) ==
  [fGamma |-> IF event1.sub = DRAGON_HEAD_EVENT THEN event1
              ELSE IF event2.sub = DRAGON_HEAD_EVENT THEN event2
              ELSE NullEvent,
   fHeavyIon |-> IF event1.sub = DRAGON_TAIL_EVENT THEN event1
                 ELSE IF event2.sub = DRAGON_TAIL_EVENT THEN event2
                 ELSE NullEvent]

\* Mutant: Process(event1, event2) with the validity test inverted.
ProcessCoincAcceptsInverted(event1, event2) ==
  LET coincEvent == CoincEvent(event1, event2)
  IN coincEvent.fHeavyIon = NullEvent \/ coincEvent.fGamma = NullEvent

\* Process(event1, event2): is the pair unpacked as a coincidence?
ProcessCoincAccepts(event1, event2) ==
  LET coincEvent == CoincEvent(event1, event2)
  IN ~(coincEvent.fHeavyIon = NullEvent \/ coincEvent.fGamma = NullEvent)

\* Process(event): the code a single leaves in fUnpacked (none when the id is
\* unknown).
ProcessSingle(event) ==
  IF event.sub = DRAGON_HEAD_EVENT THEN <<DRAGON_HEAD_EVENT>>
  ELSE IF event.sub = DRAGON_TAIL_EVENT THEN <<DRAGON_TAIL_EVENT>>
  ELSE <<>>

RECURSIVE ProcessSingles(_)
ProcessSingles(events) ==
  IF events = <<>> THEN <<>>
  ELSE ProcessSingle(Head(events)) \o ProcessSingles(Tail(events))

\* A detector record (dragon::Head, dragon::Tail, dragon::Coinc) as the
\* Unpacker drives it: reset() empties it, unpack(event) fills it from the
\* event, calculate() derives from what was unpacked.
NullCoinc == [fGamma |-> NullEvent, fHeavyIon |-> NullEvent]

DetReset(d, none) == [state |-> "reset", event |-> none]
DetUnpack(d, event) == [state |-> "unpacked", event |-> event]
DetCalculate(d) == [d EXCEPT !.state = "calculated"]

\* Mutant: calculate() alone, on whatever the record held.
UnpackHeadStale(d, event) == DetCalculate(d)

\* UnpackHead / UnpackTail: the record after reset, unpack and calculate.
UnpackHead(d, event) == DetCalculate(DetUnpack(DetReset(d, NullEvent), event))
UnpackTail(d, event) == DetCalculate(DetUnpack(DetReset(d, NullEvent), event))

\* UnpackCoinc: likewise for the coincidence record.
UnpackCoinc(d, event) == DetCalculate(DetUnpack(DetReset(d, NullCoinc), event))

\* Process(event) for each of `events` in turn: the head record after it.
RECURSIVE ProcessIntoHead(_, _)
ProcessIntoHead(d, events) ==
  IF events = <<>> THEN d
  ELSE ProcessIntoHead(IF Head(events).sub = DRAGON_HEAD_EVENT
                       THEN UnpackHead(d, Head(events)) ELSE d,
                       Tail(events))

\* Process(event) for each of `events` in turn: the tail record after it.
RECURSIVE ProcessIntoTail(_, _)
ProcessIntoTail(d, events) ==
  IF events = <<>> THEN d
  ELSE ProcessIntoTail(IF Head(events).sub = DRAGON_TAIL_EVENT
                       THEN UnpackTail(d, Head(events)) ELSE d,
                       Tail(events))

\* Mutant: only the head case asks IsSinglesMode(); a tail event is unpacked
\* at once in either mode.
RoutedToQueueHeadOnly(evtId, singlesMode_) ==
  evtId = DRAGON_HEAD_EVENT /\ ~singlesMode_

\* Is the event routed to the queue by UnpackMidasEvent?
RoutedToQueue(evtId, singlesMode_) ==
  evtId \in {DRAGON_HEAD_EVENT, DRAGON_TAIL_EVENT} /\ ~singlesMode_

\* The codes UnpackMidasEvent leaves for an event handled without the queue.
DirectCodes(evtId) ==
  CASE evtId = DRAGON_HEAD_EVENT -> <<DRAGON_HEAD_EVENT>>
    [] evtId = DRAGON_TAIL_EVENT -> <<DRAGON_TAIL_EVENT>>
    [] evtId = DRAGON_HEAD_SCALER -> <<DRAGON_HEAD_SCALER>>
    [] evtId = DRAGON_TAIL_SCALER -> <<DRAGON_TAIL_SCALER>>
    [] evtId = MIDAS_BOR -> <<DRAGON_RUN_PARAMETERS>>
    [] evtId = MIDAS_EOR -> <<DRAGON_RUN_PARAMETERS>>
    [] OTHER -> <<>>

InitUnpacker ==
  /\ singlesMode \in BOOLEAN
  /\ fCoincWindow \in Windows
  /\ pending = <<>>
  /\ coincs = <<>>
  /\ singles = <<>>
  /\ skipped = <<>>
  /\ fDiag = DiagZero
  /\ fUnpacked = <<>>
  /\ arrival = 0
  /\ ret = 0
  /\ fault = FALSE
  /\ lastOp = [op |-> "init", event |-> NullEvent]
  /\ fHead = [state |-> "reset", event |-> NullEvent]
  /\ fTail = [state |-> "reset", event |-> NullEvent]
  /\ fCoinc = [state |-> "reset", event |-> NullCoinc]
  /\ fHeadScaler = "reset"
  /\ fTailScaler = "reset"
  /\ fRunpar = "reset"
  /\ variables = "default"

\* Mutant: the event built without the coincidence window, as in singles mode.
UnpackQueuedNoWindow(evtId, ts) ==
  /\ ~fault
  /\ RoutedToQueue(evtId, singlesMode)
  /\ arrival < MaxEvents
  /\ LET e == MakeEvent(arrival + 1, evtId, ts)
         r == Push(pending, e, 0)
         ok == r.pair # <<>> /\ ProcessCoincAccepts(r.pair[1], r.pair[2])
     IN /\ pending' = r.pending
        /\ arrival' = arrival + 1
        /\ fDiag' = DiagPush(fDiag, pending, e, r.pair)
        /\ coincs' = IF ok THEN Append(coincs, CoincEvent(r.pair[1], r.pair[2]))
                     ELSE coincs
        /\ skipped' = IF r.pair # <<>> /\ ~ok THEN Append(skipped, r.pair)
                      ELSE skipped
        /\ fUnpacked' = IF ok THEN <<DRAGON_COINC_EVENT>> ELSE <<>>
        /\ fCoinc' = IF ok THEN UnpackCoinc(fCoinc, CoincEvent(r.pair[1], r.pair[2]))
                     ELSE fCoinc
  /\ lastOp' = [op |-> "push", event |-> MakeEvent(arrival + 1, evtId, ts)]
  /\ UNCHANGED <<singlesMode, fCoincWindow, singles, ret, fault>>
  /\ UNCHANGED <<fHead, fTail, runs>>
  /\ UNCHANGED <<avars, fvars>>

\* UnpackMidasEvent for a head or tail event in coincidence mode.
UnpackQueued(evtId, ts) ==
  /\ ~fault
  /\ RoutedToQueue(evtId, singlesMode)
  /\ arrival < MaxEvents
  /\ LET e == MakeEvent(arrival + 1, evtId, ts)
         r == Push(pending, e, fCoincWindow)
         ok == r.pair # <<>> /\ ProcessCoincAccepts(r.pair[1], r.pair[2])
     IN /\ pending' = r.pending
        /\ arrival' = arrival + 1
        /\ fDiag' = DiagPush(fDiag, pending, e, r.pair)
        /\ coincs' = IF ok THEN Append(coincs, CoincEvent(r.pair[1], r.pair[2]))
                     ELSE coincs
        /\ skipped' = IF r.pair # <<>> /\ ~ok THEN Append(skipped, r.pair)
                      ELSE skipped
        /\ fUnpacked' = IF ok THEN <<DRAGON_COINC_EVENT>> ELSE <<>>
        /\ fCoinc' = IF ok THEN UnpackCoinc(fCoinc, CoincEvent(r.pair[1], r.pair[2]))
                     ELSE fCoinc
  /\ lastOp' = [op |-> "push", event |-> MakeEvent(arrival + 1, evtId, ts)]
  /\ UNCHANGED <<singlesMode, fCoincWindow, singles, ret, fault>>
  /\ UNCHANGED <<fHead, fTail, runs>>
  /\ UNCHANGED <<avars, fvars>>

\* The event of a call that does not go through the queue: its payload
\* (told apart by ts) is read only when a detector record is assembled from
\* it.
DirectEvent(evtId, ts) ==
  MakeEvent(0, evtId,
            IF evtId \in {DRAGON_HEAD_EVENT, DRAGON_TAIL_EVENT} THEN ts ELSE 0)

\* Mutant: the end-of-run case flushes the queue before it reads the run
\* parameters.
UnpackDirectEorFlush(evtId, ts) ==
  /\ ~fault
  /\ ~RoutedToQueue(evtId, singlesMode)
  /\ LET evicted == IF evtId = MIDAS_EOR THEN pending ELSE <<>>
     IN /\ pending' = IF evtId = MIDAS_EOR THEN <<>> ELSE pending
        /\ singles' = singles \o evicted
        /\ fDiag' = DiagEvict(fDiag, evicted)
        /\ fUnpacked' = ProcessSingles(evicted) \o DirectCodes(evtId)
        /\ fHead' = IF evtId = DRAGON_HEAD_EVENT
                    THEN UnpackHead(fHead, DirectEvent(evtId, ts))
                    ELSE ProcessIntoHead(fHead, evicted)
        /\ fTail' = IF evtId = DRAGON_TAIL_EVENT
                    THEN UnpackTail(fTail, DirectEvent(evtId, ts))
                    ELSE ProcessIntoTail(fTail, evicted)
  /\ fHeadScaler' = IF evtId = DRAGON_HEAD_SCALER THEN "unpacked" ELSE fHeadScaler
  /\ fTailScaler' = IF evtId = DRAGON_TAIL_SCALER THEN "unpacked" ELSE fTailScaler
  /\ fRunpar' = IF evtId \in {MIDAS_BOR, MIDAS_EOR} THEN "read" ELSE fRunpar
  /\ lastOp' = [op |-> "unpack", event |-> DirectEvent(evtId, ts)]
  /\ UNCHANGED <<singlesMode, fCoincWindow, coincs, skipped, arrival, ret, fault>>
  /\ UNCHANGED <<fCoinc, variables>>
  /\ UNCHANGED <<avars, fvars>>

\* UnpackMidasEvent for every event that does not go through the queue: a
\* head or tail event in singles mode, a scaler event, a run boundary, an
\* unknown id.
UnpackDirect(evtId, ts) ==
  /\ ~fault
  /\ ~RoutedToQueue(evtId, singlesMode)
  /\ fUnpacked' = DirectCodes(evtId)
  /\ fHead' = IF evtId = DRAGON_HEAD_EVENT
              THEN UnpackHead(fHead, DirectEvent(evtId, ts)) ELSE fHead
  /\ fTail' = IF evtId = DRAGON_TAIL_EVENT
              THEN UnpackTail(fTail, DirectEvent(evtId, ts)) ELSE fTail
  /\ fHeadScaler' = IF evtId = DRAGON_HEAD_SCALER THEN "unpacked" ELSE fHeadScaler
  /\ fTailScaler' = IF evtId = DRAGON_TAIL_SCALER THEN "unpacked" ELSE fTailScaler
  /\ fRunpar' = IF evtId \in {MIDAS_BOR, MIDAS_EOR} THEN "read" ELSE fRunpar
  /\ lastOp' = [op |-> "unpack", event |-> DirectEvent(evtId, ts)]
  /\ UNCHANGED <<singlesMode, fCoincWindow, pending, coincs, singles, skipped,
                 fDiag, arrival, ret, fault>>
  /\ UNCHANGED <<fCoinc, variables>>
  /\ UNCHANGED <<avars, fvars>>

UnpackMidasEvent ==
  \/ \E evtId \in EventIds, ts \in Timestamps : UnpackQueued(evtId, ts)
  \/ \E evtId \in EventIds, ts \in Timestamps : UnpackDirect(evtId, ts)

\* Mutant: FlushQueue handing the queue no diagnostics to count in.
FlushQueueNoDiag ==
  \E flushTime \in Timestamps :
    /\ ~fault
    /\ ~singlesMode
    /\ LET r == Flush(pending, flushTime)
       IN /\ pending' = r.pending
          /\ singles' = singles \o r.evicted
          /\ fUnpacked' = fUnpacked \o ProcessSingles(r.evicted)
          /\ fHead' = ProcessIntoHead(fHead, r.evicted)
          /\ fTail' = ProcessIntoTail(fTail, r.evicted)
    /\ lastOp' = [op |-> "flush", event |-> NullEvent]
    /\ UNCHANGED <<singlesMode, fCoincWindow, coincs, skipped, arrival, ret, fault>>
    /\ UNCHANGED <<fDiag, fCoinc, runs>>
    /\ UNCHANGED <<avars, fvars>>

\* Mutant: FlushQueue calling the one-at-a-time flush.
FlushQueueOne ==
  \E flushTime \in Timestamps :
    /\ ~fault
    /\ ~singlesMode
    /\ LET r == FlushIterative(pending)
       IN /\ pending' = r.pending
          /\ singles' = singles \o r.evicted
          /\ fDiag' = DiagEvict(fDiag, r.evicted)
          /\ fUnpacked' = fUnpacked \o ProcessSingles(r.evicted)
          /\ fHead' = ProcessIntoHead(fHead, r.evicted)
          /\ fTail' = ProcessIntoTail(fTail, r.evicted)
    /\ lastOp' = [op |-> "flush", event |-> NullEvent]
    /\ UNCHANGED <<singlesMode, fCoincWindow, coincs, skipped, arrival, ret, fault>>
    /\ UNCHANGED <<fCoinc, runs>>
    /\ UNCHANGED <<avars, fvars>>

FlushQueue ==
  \E flushTime \in Timestamps :
    /\ ~fault
    /\ ~singlesMode
    /\ LET r == Flush(pending, flushTime)
       IN /\ pending' = r.pending
          /\ singles' = singles \o r.evicted
          /\ fDiag' = DiagEvict(fDiag, r.evicted)
          /\ fUnpacked' = fUnpacked \o ProcessSingles(r.evicted)
          /\ fHead' = ProcessIntoHead(fHead, r.evicted)
          /\ fTail' = ProcessIntoTail(fTail, r.evicted)
    /\ lastOp' = [op |-> "flush", event |-> NullEvent]
    /\ UNCHANGED <<singlesMode, fCoincWindow, coincs, skipped, arrival, ret, fault>>
    /\ UNCHANGED <<fCoinc, runs>>
    /\ UNCHANGED <<avars, fvars>>

\* Mutant: FlushQueueIterative returning the size before the removal.
FlushQueueIterativeStale ==
  /\ ~fault
  /\ ~singlesMode
  /\ LET r == FlushIterative(pending)
     IN /\ pending' = r.pending
        /\ singles' = singles \o r.evicted
        /\ fDiag' = DiagEvict(fDiag, r.evicted)
        /\ fUnpacked' = fUnpacked \o ProcessSingles(r.evicted)
        /\ fHead' = ProcessIntoHead(fHead, r.evicted)
        /\ fTail' = ProcessIntoTail(fTail, r.evicted)
        /\ ret' = Len(pending)
  /\ lastOp' = [op |-> "flush_iterative", event |-> NullEvent]
  /\ UNCHANGED <<singlesMode, fCoincWindow, coincs, skipped, arrival, fault>>
  /\ UNCHANGED <<fCoinc, runs>>
  /\ UNCHANGED <<avars, fvars>>

FlushQueueIterative ==
  /\ ~fault
  /\ ~singlesMode
  /\ LET r == FlushIterative(pending)
     IN /\ pending' = r.pending
        /\ singles' = singles \o r.evicted
        /\ fDiag' = DiagEvict(fDiag, r.evicted)
        /\ fUnpacked' = fUnpacked \o ProcessSingles(r.evicted)
        /\ fHead' = ProcessIntoHead(fHead, r.evicted)
        /\ fTail' = ProcessIntoTail(fTail, r.evicted)
        /\ ret' = r.depth
  /\ lastOp' = [op |-> "flush_iterative", event |-> NullEvent]
  /\ UNCHANGED <<singlesMode, fCoincWindow, coincs, skipped, arrival, fault>>
  /\ UNCHANGED <<fCoinc, runs>>
  /\ UNCHANGED <<avars, fvars>>

\* fQueue is null in singles mode: dereferencing it is undefined behaviour.
FlushNullQueue ==
  /\ ~fault
  /\ singlesMode
  /\ \/ fault' = TRUE /\ ret' = ret
     \/ fault' = FALSE /\ ret' \in 0 .. MaxEvents
  /\ lastOp' = [op |-> "flush_null", event |-> NullEvent]
  /\ UNCHANGED <<singlesMode, fCoincWindow, pending, coincs, singles, skipped,
                 fDiag, fUnpacked, arrival>>
  /\ UNCHANGED <<dets, runs>>
  /\ UNCHANGED <<avars, fvars>>

\* Mutant: HandleBor without the reset of the timestamp diagnostics.
HandleBorKeepsDiag ==
  \E dbname \in BOOLEAN :
    /\ ~fault
    /\ fHeadScaler' = "reset"
    /\ fTailScaler' = "reset"
    /\ fRunpar' = "reset"
    /\ variables' = IF dbname THEN "db" ELSE variables
    /\ lastOp' = [op |-> "bor", event |-> NullEvent]
    /\ UNCHANGED <<singlesMode, fCoincWindow, pending, coincs, singles, skipped,
                   fDiag, fUnpacked, arrival, ret, fault>>
    /\ UNCHANGED dets
    /\ UNCHANGED <<avars, fvars>>

\* HandleBor(dbname): dbname is null or names a database.
HandleBor ==
  \E dbname \in BOOLEAN :
    /\ ~fault
    /\ fHeadScaler' = "reset"
    /\ fTailScaler' = "reset"
    /\ fRunpar' = "reset"
    /\ fDiag' = DiagZero
    /\ variables' = IF dbname THEN "db" ELSE variables
    /\ lastOp' = [op |-> "bor", event |-> NullEvent]
    /\ UNCHANGED <<singlesMode, fCoincWindow, pending, coincs, singles, skipped,
                   fUnpacked, arrival, ret, fault>>
    /\ UNCHANGED dets
    /\ UNCHANGED <<avars, fvars>>

\* Codes Process(tstamp::Diagnostics*) may add to one list.
MaxCodes == 1

\* Process(tstamp::Diagnostics*)
ProcessDiagnostics ==
  /\ ~fault
  /\ Len(fUnpacked) < MaxCodes
  /\ fUnpacked' = Append(fUnpacked, DRAGON_TSTAMP_DIAGNOSTICS)
  /\ lastOp' = [op |-> "diagnostics", event |-> NullEvent]
  /\ UNCHANGED <<singlesMode, fCoincWindow, pending, coincs, singles, skipped,
                 fDiag, arrival, ret, fault>>
  /\ UNCHANGED <<dets, runs>>
  /\ UNCHANGED <<avars, fvars>>

\* --------------------------------------------------------- ADC decoder
\* Bit masks of utils/Bits.hxx.
READ1 == 1
READ3 == 7
READ5 == 31
READ8 == 255
READ12 == 4095
READ24 == 16777215

DATA_BITS == 0
HEADER_BITS == 2
FOOTER_BITS == 4
INVALID_BITS == 6

\* "Empty" code of a channel without data.
NONE == -1

\* Channels of an Adc<32>.
NChannels == 32

Pow2(n) == 2 ^ n

\* (data >> n) & mask, for a mask of the form 2^k - 1.
ShiftMask(data, n, mask) == (data \div Pow2(n)) % (mask + 1)

\* vme::reset: every channel to NONE; the other fields are not touched.
reset(module) == [module EXCEPT !.data = [c \in 0 .. NChannels - 1 |-> NONE]]

\* Mutant: the value read through the 8-bit mask.
unpack_adc_data_narrow(data, module) ==
  LET ch == ShiftMask(data, 16, READ5)
  IN IF 32 < ch
     THEN [module |-> module, threw |-> TRUE]
     ELSE [module |-> [module EXCEPT !.underflow = ShiftMask(data, 13, READ1),
                                     !.overflow = ShiftMask(data, 12, READ1),
                                     !.data[ch] = ShiftMask(data, 0, READ8)],
           threw |-> FALSE]

\* Mutant: the 12-bit value read as a signed quantity.
unpack_adc_data_signed(data, module) ==
  LET ch == ShiftMask(data, 16, READ5)
      v == ShiftMask(data, 0, READ12)
  IN IF 32 < ch
     THEN [module |-> module, threw |-> TRUE]
     ELSE [module |-> [module EXCEPT !.underflow = ShiftMask(data, 13, READ1),
                                     !.overflow = ShiftMask(data, 12, READ1),
                                     !.data[ch] = IF v >= 2048 THEN v - 4096 ELSE v],
           threw |-> FALSE]

unpack_adc_data(data, module) ==
  LET ch == ShiftMask(data, 16, READ5)
  IN IF 32 < ch
     THEN [module |-> module, threw |-> TRUE]
     ELSE [module |-> [module EXCEPT !.underflow = ShiftMask(data, 13, READ1),
                                     !.overflow = ShiftMask(data, 12, READ1),
                                     !.data[ch] = ShiftMask(data, 0, READ12)],
           threw |-> FALSE]

unpack_adc_header(data, module) ==
  [module |-> [module EXCEPT !.n_present = ShiftMask(data, 6, READ8)],
   threw |-> FALSE]

unpack_adc_footer(data, module) ==
  [module |-> [module EXCEPT !.count = ShiftMask(data, 0, READ24)],
   threw |-> FALSE]

handle_adc_invalid(data, module) == [module |-> module, threw |-> FALSE]

\* run_adc_unpacker: `known` is its return value, `threw` whether the
\* handler it called threw.
run_adc_unpacker(which, data, module) ==
  IF which \notin {DATA_BITS, HEADER_BITS, FOOTER_BITS, INVALID_BITS}
  THEN [module |-> module, known |-> FALSE, threw |-> FALSE]
  ELSE LET r == CASE which = DATA_BITS -> unpack_adc_data(data, module)
                  [] which = HEADER_BITS -> unpack_adc_header(data, module)
                  [] which = FOOTER_BITS -> unpack_adc_footer(data, module)
                  [] which = INVALID_BITS -> handle_adc_invalid(data, module)
       IN [module |-> r.module, known |-> TRUE, threw |-> r.threw]

unpack_adc_buffer(data32, module) ==
  LET type == ShiftMask(data32, 24, READ3)
      r == run_adc_unpacker(type, data32, module)
  IN [module |-> r.module,
      success |-> IF r.threw THEN FALSE ELSE r.known]

\* Mutant: the loop left at the first word that fails.
RECURSIVE unpack_adc_loop_aborting(_, _, _)
unpack_adc_loop_aborting(bank, module, ret_) ==
  IF bank = <<>>
  THEN [module |-> module, ret |-> ret_]
  ELSE LET r == unpack_adc_buffer(Head(bank), module)
       IN IF ~r.success
          THEN [module |-> r.module, ret |-> FALSE]
          ELSE unpack_adc_loop_aborting(Tail(bank), r.module, ret_)

\* The loop of unpack_adc over the words of the bank.
RECURSIVE unpack_adc_loop(_, _, _)
unpack_adc_loop(bank, module, ret_) ==
  IF bank = <<>>
  THEN [module |-> module, ret |-> ret_]
  ELSE LET r == unpack_adc_buffer(Head(bank), module)
       IN unpack_adc_loop(Tail(bank), r.module, IF ~r.success THEN FALSE ELSE ret_)

unpack_adc(found, bank, module) ==
  IF ~found
  THEN [module |-> module, ret |-> FALSE]
  ELSE unpack_adc_loop(bank, module, TRUE)

\* A 32-bit word from its fields.
DataWord(ch, un, ov, value) ==
  DATA_BITS * Pow2(24) + ch * Pow2(16) + un * Pow2(13) + ov * Pow2(12) + value

\* The DATA words: channel 0 with a value and with the value 0, and channel
\* 31 with the largest value, the underflow flag and bits set outside every
\* field.
AdcDataWords ==
  { DataWord(0, 0, 0, 5),
    DataWord(0, 0, 0, 0),
    DataWord(31, 1, 0, 4095) + Pow2(21) + Pow2(14) + Pow2(27) }

\* The words the banks are made of: the DATA words, a HEADER, a FOOTER, an
\* INVALID word and a word whose tag is none of the four.
AdcWords ==
  AdcDataWords \cup
  { HEADER_BITS * Pow2(24) + 3 * Pow2(6),
    FOOTER_BITS * Pow2(24) + 9,
    INVALID_BITS * Pow2(24) + DataWord(0, 0, 1, 6),
    1 * Pow2(24) + DataWord(0, 1, 1, 6) }

MaxBankLen == 2

RECURSIVE SeqsUpTo(_, _)
SeqsUpTo(S, n) ==
  IF n = 0 THEN {<<>>}
  ELSE LET shorter == SeqsUpTo(S, n - 1)
       IN shorter \cup {Append(b, w) : b \in shorter, w \in S}

AdcBanks == SeqsUpTo(AdcWords, MaxBankLen)

\* The module record as constructed: no channel holds data.
AdcDefault ==
  [data |-> [c \in 0 .. NChannels - 1 |-> NONE],
   underflow |-> 0, overflow |-> 0, n_present |-> 0, count |-> 0]

InitAdc ==
  /\ adc = AdcDefault
  /\ adcOp = "init"
  /\ adcBank = <<>>
  /\ adcFound = FALSE
  /\ adcRet = FALSE
  /\ adcThrew = FALSE

\* vme::reset(module)
AdcReset ==
  /\ adc' = reset(adc)
  /\ adcOp' = "reset"
  /\ UNCHANGED <<adcBank, adcFound, adcRet, adcThrew>>
  /\ UNCHANGED <<qvars, fvars>>

\* A direct call of vme::caen::unpack_adc_data(data, module).
UnpackAdcData ==
  \E data \in AdcDataWords :
    LET r == unpack_adc_data(data, adc)
    IN /\ adc' = r.module
       /\ adcThrew' = r.threw
       /\ adcBank' = <<data>>
       /\ adcOp' = "unpack_adc_data"
       /\ UNCHANGED <<adcFound, adcRet>>
       /\ UNCHANGED <<qvars, fvars>>

\* vme::caen::unpack_adc(event, bank, module): the bank is absent from the
\* event, or present with its words.
UnpackAdc ==
  \E found \in BOOLEAN, bank \in AdcBanks :
    /\ ~found => bank = <<>>
    /\ LET r == unpack_adc(found, bank, adc)
       IN /\ adc' = r.module
          /\ adcRet' = r.ret
    /\ adcFound' = found
    /\ adcBank' = bank
    /\ adcThrew' = FALSE
    /\ adcOp' = "unpack_adc"
    /\ UNCHANGED <<qvars, fvars>>

\* The assembly of one event for the detector that owns the module, as
\* UnpackHead drives it: reset() brings the module to vme::NONE, unpack(event)
\* runs unpack_adc over the module's bank, calculate() leaves the module as
\* unpacked.
AssembleModule ==
  \E found \in BOOLEAN, bank \in AdcBanks :
    /\ ~found => bank = <<>>
    /\ LET r == unpack_adc(found, bank, reset(adc))
       IN /\ adc' = r.module
          /\ adcRet' = r.ret
    /\ adcFound' = found
    /\ adcBank' = bank
    /\ adcThrew' = FALSE
    /\ adcOp' = "assemble"
    /\ UNCHANGED <<qvars, fvars>>

\* ------------------------------------------------ utils/Functions.hxx
NO_DATA == -1

MaxSample == 2
MaxLen == 3

\* Sample values: the sentinel, a negative value and small non-negative ones.
Samples == -2 .. MaxSample

SampleArrays == SeqsUpTo(Samples, MaxLen)

is_valid(t) == t # NONE

\* The forms of is_valid with two to ten values.
is_valid2(t1, t2) == t1 # NONE /\ t2 # NONE
is_valid3(t1, t2, t3) == t1 # NONE /\ t2 # NONE /\ t3 # NONE
is_valid4(t1, t2, t3, t4) == t1 # NONE /\ t2 # NONE /\ t3 # NONE /\ t4 # NONE
is_valid5(t1, t2, t3, t4, t5) ==
  t1 # NONE /\ t2 # NONE /\ t3 # NONE /\ t4 # NONE /\ t5 # NONE
is_valid6(t1, t2, t3, t4, t5, t6) ==
  /\ t1 # NONE /\ t2 # NONE /\ t3 # NONE /\ t4 # NONE /\ t5 # NONE
  /\ t6 # NONE
is_valid7(t1, t2, t3, t4, t5, t6, t7) ==
  /\ t1 # NONE /\ t2 # NONE /\ t3 # NONE /\ t4 # NONE /\ t5 # NONE
  /\ t6 # NONE /\ t7 # NONE
is_valid8(t1, t2, t3, t4, t5, t6, t7, t8) ==
  /\ t1 # NONE /\ t2 # NONE /\ t3 # NONE /\ t4 # NONE /\ t5 # NONE
  /\ t6 # NONE /\ t7 # NONE /\ t8 # NONE
is_valid9(t1, t2, t3, t4, t5, t6, t7, t8, t9) ==
  /\ t1 # NONE /\ t2 # NONE /\ t3 # NONE /\ t4 # NONE /\ t5 # NONE
  /\ t6 # NONE /\ t7 # NONE /\ t8 # NONE /\ t9 # NONE
is_valid10(t1, t2, t3, t4, t5, t6, t7, t8, t9, t10) ==
  /\ t1 # NONE /\ t2 # NONE /\ t3 # NONE /\ t4 # NONE /\ t5 # NONE
  /\ t6 # NONE /\ t7 # NONE /\ t8 # NONE /\ t9 # NONE /\ t10 # NONE

\* The loop of is_valid(tArray, len) from index i (counted from 0) on.
RECURSIVE is_valid_loop(_, _, _)
is_valid_loop(tArray, i, len) ==
  IF i < len
  THEN IF tArray[i + 1] = NONE THEN FALSE ELSE is_valid_loop(tArray, i + 1, len)
  ELSE TRUE

\* Mutant: the loop starts at the second element.
is_valid_array_from_one(tArray, len) == is_valid_loop(tArray, 1, len)

is_valid_array(tArray, len) == is_valid_loop(tArray, 0, len)

\* The call of is_valid with the values of `a` as its arguments.
is_valid_of(a) ==
  CASE Len(a) = 1 -> is_valid(a[1])
    [] Len(a) = 2 -> is_valid2(a[1], a[2])
    [] Len(a) = 3 -> is_valid3(a[1], a[2], a[3])
    [] Len(a) = 4 -> is_valid4(a[1], a[2], a[3], a[4])
    [] Len(a) = 5 -> is_valid5(a[1], a[2], a[3], a[4], a[5])
    [] Len(a) = 6 -> is_valid6(a[1], a[2], a[3], a[4], a[5], a[6])
    [] Len(a) = 7 -> is_valid7(a[1], a[2], a[3], a[4], a[5], a[6], a[7])
    [] Len(a) = 8 -> is_valid8(a[1], a[2], a[3], a[4], a[5], a[6], a[7], a[8])
    [] Len(a) = 9 ->
         is_valid9(a[1], a[2], a[3], a[4], a[5], a[6], a[7], a[8], a[9])
    [] Len(a) = 10 ->
         is_valid10(a[1], a[2], a[3], a[4], a[5], a[6], a[7], a[8], a[9], a[10])

\* The forms of is_valid take one to ten values.
MaxArgs == 10

\* Argument lists of is_valid: one value of any kind, or two to ten values
\* all valid but for at most one.
ValidityArgs ==
  {<<t>> : t \in Samples} \cup
  UNION {{a \in [1 .. n -> {NONE, 0}] :
            Cardinality({i \in 1 .. n : a[i] = NONE}) <= 1} : n \in 2 .. MaxArgs}

\* Arrays handed to is_valid(tArray, len): of the sentinel, a negative value
\* and zero.
ValidityArrays == SeqsUpTo({NONE, -2, 0}, MaxLen)

calculate_tof(t1, t2) ==
  IF is_valid(t1) /\ is_valid(t2) THEN t1 - t2 ELSE NO_DATA

\* The loop of calculate_sum from `begin` to `end`, `sum` so far.
RECURSIVE calculate_sum_loop(_, _)
calculate_sum_loop(range, sum) ==
  IF range = <<>> THEN sum
  ELSE calculate_sum_loop(Tail(range),
                          IF is_valid(Head(range)) THEN sum + Head(range) ELSE sum)

\* Mutant: every element is added, valid or not.
RECURSIVE calculate_sum_unguarded(_)
calculate_sum_unguarded(range) ==
  IF range = <<>> THEN 0
  ELSE Head(range) + calculate_sum_unguarded(Tail(range))

calculate_sum(range) == calculate_sum_loop(range, 0)

\* utils::greater_and_valid<T>::operator()
greater_and_valid(lhs, rhs) ==
  IF ~is_valid(lhs) THEN FALSE
  ELSE IF ~is_valid(rhs) THEN TRUE
  ELSE lhs > rhs

\* utils::less_and_valid<T>::operator()
less_and_valid(lhs, rhs) ==
  IF ~is_valid(lhs) THEN TRUE
  ELSE IF ~is_valid(rhs) THEN FALSE
  ELSE lhs < rhs

InitFn ==
  /\ fnOp = "init"
  /\ fnT1 = 0
  /\ fnT2 = 0
  /\ fnArr = <<>>
  /\ fnResult = 0
  /\ fnValid = FALSE

CalculateTof ==
  \E t1 \in Samples, t2 \in Samples :
    /\ fnOp' = "calculate_tof"
    /\ fnT1' = t1
    /\ fnT2' = t2
    /\ fnResult' = calculate_tof(t1, t2)
    /\ fnArr' = <<>>
    /\ fnValid' = FALSE
    /\ UNCHANGED <<qvars, avars>>

CalculateSum ==
  \E range \in SampleArrays :
    /\ fnOp' = "calculate_sum"
    /\ fnArr' = range
    /\ fnResult' = calculate_sum(range)
    /\ fnT1' = 0
    /\ fnT2' = 0
    /\ fnValid' = FALSE
    /\ UNCHANGED <<qvars, avars>>

\* greater_and_valid<T>()(lhs, rhs)
GreaterAndValid ==
  \E lhs \in Samples, rhs \in Samples :
    /\ fnOp' = "greater_and_valid"
    /\ fnT1' = lhs
    /\ fnT2' = rhs
    /\ fnValid' = greater_and_valid(lhs, rhs)
    /\ fnArr' = <<>>
    /\ fnResult' = 0
    /\ UNCHANGED <<qvars, avars>>

\* less_and_valid<T>()(lhs, rhs)
LessAndValid ==
  \E lhs \in Samples, rhs \in Samples :
    /\ fnOp' = "less_and_valid"
    /\ fnT1' = lhs
    /\ fnT2' = rhs
    /\ fnValid' = less_and_valid(lhs, rhs)
    /\ fnArr' = <<>>
    /\ fnResult' = 0
    /\ UNCHANGED <<qvars, avars>>

\* is_valid(t1, ..., tn)
IsValid ==
  \E a \in ValidityArgs :
    /\ fnOp' = "is_valid"
    /\ fnArr' = a
    /\ fnValid' = is_valid_of(a)
    /\ fnT1' = 0
    /\ fnT2' = 0
    /\ fnResult' = 0
    /\ UNCHANGED <<qvars, avars>>

\* is_valid(tArray, len), len no more than the array holds
IsValidArray ==
  \E tArray \in ValidityArrays :
    \E len \in 0 .. Len(tArray) :
      /\ fnOp' = "is_valid_array"
      /\ fnArr' = tArray
      /\ fnT1' = len
      /\ fnValid' = is_valid_array(tArray, len)
      /\ fnT2' = 0
      /\ fnResult' = 0
      /\ UNCHANGED <<qvars, avars>>

\* ------------------------------------------------------ specifications
Init == InitUnpacker /\ InitAdc /\ InitFn

\* The Unpacker with every operation it offers.
Next ==
  \/ UnpackMidasEvent
  \/ FlushQueue
  \/ FlushQueueIterative
  \/ FlushNullQueue
  \/ HandleBor
  \/ ProcessDiagnostics

Spec == Init /\ [][Next]_vars

\* Events pushed in a run of SpecRun.
MaxRunEvents == 1

\* The Unpacker as constructed in either mode, the window at its one default.
InitRun == Init /\ fCoincWindow = MaxWindow

\* The Unpacker with every operation it offers, in either mode, over short
\* runs.
NextRun ==
  \/ \E evtId \in EventIds, ts \in Timestamps :
       arrival < MaxRunEvents /\ UnpackQueued(evtId, ts)
  \/ \E evtId \in EventIds, ts \in Timestamps : UnpackDirect(evtId, ts)
  \/ FlushQueue
  \/ FlushQueueIterative
  \/ FlushNullQueue
  \/ HandleBor
  \/ ProcessDiagnostics

SpecRun == InitRun /\ [][NextRun]_vars

\* The coincidence queue driven through the Unpacker by pushes and flushes
\* alone (coincidence mode).
InitQueue == Init /\ ~singlesMode

NextQueue ==
  \/ \E evtId \in EventIds, ts \in Timestamps : UnpackQueued(evtId, ts)
  \/ FlushQueue
  \/ FlushQueueIterative

SpecQueue == InitQueue /\ [][NextQueue]_vars

\* The Unpacker left as constructed, for the components checked on their own.
InitIdle == Init /\ singlesMode /\ fCoincWindow = 0

\* The ADC decoder on its own.
NextAdc ==
  \/ AdcReset
  \/ UnpackAdcData
  \/ UnpackAdc
  \/ AssembleModule

SpecAdc == InitIdle /\ [][NextAdc]_vars

\* The derivations of utils/Functions.hxx on their own.
NextFn ==
  \/ CalculateTof
  \/ CalculateSum
  \/ IsValid
  \/ IsValidArray
  \/ GreaterAndValid
  \/ LessAndValid

SpecFn == InitIdle /\ [][NextFn]_vars

\* ============================================================ claims
PendingCount(n) == Cardinality({i \in DOMAIN pending : pending[i].id = n})

CoincCount(n) ==
  Cardinality({i \in DOMAIN coincs : coincs[i].fGamma.id = n})
  + Cardinality({i \in DOMAIN coincs : coincs[i].fHeavyIon.id = n})

SinglesCount(n) == Cardinality({i \in DOMAIN singles : singles[i].id = n})

IsHead(e) == e.sub = DRAGON_HEAD_EVENT
IsTail(e) == e.sub = DRAGON_TAIL_EVENT

C1_Placed ==
  \A n \in 1 .. arrival : PendingCount(n) + CoincCount(n) + SinglesCount(n) = 1

C1_Terminal ==
  \A n \in 1 .. arrival :
    PendingCount(n) = 0 =>
      /\ PendingCount(n)' = 0
      /\ CoincCount(n)' = CoincCount(n)
      /\ SinglesCount(n)' = SinglesCount(n)

\* C1: every event ever pushed is in exactly one place - pending, in exactly
\* one emitted coincidence, or emitted once as a single - and an event that
\* has left the pending storage never returns to it nor is emitted again.
C1_NoLossNoDuplication == []C1_Placed /\ [][C1_Terminal]_vars

C1_Witness ==
  /\ arrival = 3
  /\ Len(coincs) = 1
  /\ Len(singles) = 1
  /\ pending = <<>>

\* The push of e2 as the second push into a queue that was empty.
SecondPush(e1, e2) ==
  /\ pending = <<e1>>
  /\ lastOp'.op = "push"
  /\ lastOp'.event = e2

HeadOf(e1, e2) == IF IsHead(e1) THEN e1 ELSE e2
TailOf(e1, e2) == IF IsTail(e1) THEN e1 ELSE e2

OneHeadOneTail(e1, e2) ==
  \/ IsHead(e1) /\ IsTail(e2)
  \/ IsTail(e1) /\ IsHead(e2)

C2_Step ==
  /\ (pending = <<>> /\ lastOp'.op = "push") =>
       (pending' = <<lastOp'.event>> /\ coincs' = coincs)
  /\ \A e1 \in {pending[i] : i \in DOMAIN pending} :
       LET e2 == lastOp'.event
       IN (/\ SecondPush(e1, e2)
           /\ OneHeadOneTail(e1, e2)
           /\ HeadOf(e1, e2).ts <= TailOf(e1, e2).ts
           /\ TailOf(e1, e2).ts <= HeadOf(e1, e2).ts + fCoincWindow)
          => /\ pending' = <<>>
             /\ coincs' = Append(coincs, [fGamma |-> HeadOf(e1, e2),
                                          fHeavyIon |-> TailOf(e1, e2)])

\* C2: a head at T and a tail at T + delta, 0 <= delta <= window, pushed in
\* either order into an empty queue, give exactly one coincidence and leave
\* nothing pending.
C2_MatchWithinWindow == [][C2_Step]_vars

C2_Witness ==
  /\ lastOp.op = "push"
  /\ IsHead(lastOp.event)
  /\ arrival = 2
  /\ pending = <<>>
  /\ Len(coincs) = 1
  /\ fCoincWindow > 0
  /\ coincs[1].fHeavyIon.ts = coincs[1].fGamma.ts + fCoincWindow

\* C3: every emitted coincidence holds one head and one tail event, both
\* present, no further apart than the window.
C3_CoincidenceWellFormed ==
  \A i \in DOMAIN coincs :
    /\ coincs[i].fGamma # NullEvent
    /\ coincs[i].fHeavyIon # NullEvent
    /\ IsHead(coincs[i].fGamma)
    /\ IsTail(coincs[i].fHeavyIon)
    /\ Distance(coincs[i].fGamma, coincs[i].fHeavyIon) <= fCoincWindow

C3_Witness ==
  /\ coincs # <<>>
  /\ fCoincWindow > 0
  /\ Distance(coincs[1].fGamma, coincs[1].fHeavyIon) = fCoincWindow

\* The partner the last emitted coincidence gave to event e.
PartnerOf(c, e) == IF c.fGamma = e THEN c.fHeavyIon ELSE c.fGamma

C4_Step ==
  (lastOp'.op = "push" /\ Len(coincs') = Len(coincs) + 1) =>
    LET e == lastOp'.event
        p == PartnerOf(coincs'[Len(coincs')], e)
    IN /\ \E i \in DOMAIN pending : pending[i] = p
       /\ p.sub # e.sub
       /\ \A i \in DOMAIN pending :
            pending[i].sub # e.sub =>
              \/ Distance(p, e) < Distance(pending[i], e)
              \/ Distance(p, e) = Distance(pending[i], e) /\ p.id <= pending[i].id

\* C4: the partner of a matched push is the pending event of the other
\* subsystem closest in timestamp, and among equally close ones the one
\* pushed first.
C4_ClosestEarliestPartner == [][C4_Step]_vars

C4_Witness ==
  /\ lastOp.op = "push"
  /\ coincs # <<>>
  /\ LET e == lastOp.event
         p == PartnerOf(coincs[Len(coincs)], e)
     IN /\ (coincs[Len(coincs)].fGamma = e \/ coincs[Len(coincs)].fHeavyIon = e)
        /\ \E i \in DOMAIN pending :
             /\ pending[i].sub = p.sub
             /\ Distance(pending[i], e) = Distance(p, e)
             /\ pending[i].id > p.id

C5_Step ==
  /\ \A e1 \in {pending[i] : i \in DOMAIN pending} :
       LET e2 == lastOp'.event
       IN (/\ SecondPush(e1, e2)
           /\ OneHeadOneTail(e1, e2)
           /\ TailOf(e1, e2).ts > HeadOf(e1, e2).ts + fCoincWindow)
          => (pending' = <<e1, e2>> /\ coincs' = coincs)
  /\ (/\ lastOp'.op = "flush"
      /\ Len(pending) = 2
      /\ OneHeadOneTail(pending[1], pending[2])
      /\ TailOf(pending[1], pending[2]).ts
           > HeadOf(pending[1], pending[2]).ts + fCoincWindow
      /\ coincs = <<>> /\ singles = <<>>
      /\ fDiag.unmatched = 0 /\ fDiag.matches = 0)
     => /\ pending' = <<>>
        /\ coincs' = <<>>
        /\ singles' = pending
        /\ fDiag'.unmatched = 2
        /\ fDiag'.matches = 0

C6_Step ==
  lastOp'.op = "flush_iterative" =>
    IF pending # <<>>
    THEN /\ Len(pending') = Len(pending) - 1
         /\ ret' = Len(pending) - 1
         /\ \E i \in DOMAIN pending :
              /\ \A j \in DOMAIN pending : pending[i].id <= pending[j].id
              /\ singles' = Append(singles, pending[i])
              /\ pending' = RemoveAt(pending, i)
    ELSE /\ ret' = 0
         /\ UNCHANGED <<pending, coincs, singles, fDiag, fUnpacked>>

\* C6: flush_iterative on N >= 1 pending events evicts exactly the oldest and
\* returns N - 1; on an empty queue it changes nothing and returns 0.
C6_FlushIterativeDrains == [][C6_Step]_vars

C6_Witness ==
  /\ lastOp.op = "flush_iterative"
  /\ ret = 1
  /\ Len(pending) = 1
  /\ singles # <<>>

\* The fields of a word as the data sheet numbers them: the tag in bits
\* 24-26, the channel in bits 16-20, the value in bits 0-11.
TagOf(w) == (w \div 16777216) % 8
ChannelOf(w) == (w \div 65536) % 32
ValueOf(w) == w % 4096

\* The step decodes the single DATA word w: by a direct call of the DATA
\* handler, or as the only word of a bank that was found.
DecodesDataWord(w) ==
  \/ adcOp' = "unpack_adc_data" /\ adcBank' = <<w>>
  \/ /\ adcOp' = "unpack_adc"
     /\ adcFound'
     /\ adcBank' = <<w>>
     /\ TagOf(w) = DATA_BITS

C7_Step ==
  \A w \in AdcWords :
    DecodesDataWord(w) =>
      IF ChannelOf(w) < NChannels
      THEN /\ adc'.data = [adc.data EXCEPT ![ChannelOf(w)] = ValueOf(w)]
           /\ adcOp' = "unpack_adc_data" => ~adcThrew'
           /\ adcOp' = "unpack_adc" => adcRet'
      ELSE /\ adc' = adc
           /\ adcOp' = "unpack_adc_data" => adcThrew'
           /\ adcOp' = "unpack_adc" => ~adcRet'

\* C7: a DATA word with channel c < N and value v sets data[c] = v and
\* leaves every other channel as it was; with c >= N the record is left
\* unchanged and the decoding fails.
C7_DataWordWritesOneChannel == [][C7_Step]_vars

C7_Witness ==
  /\ adcOp = "unpack_adc"
  /\ adcFound
  /\ Len(adcBank) = 1
  /\ TagOf(adcBank[1]) = DATA_BITS
  /\ ChannelOf(adcBank[1]) = 31
  /\ adc.data[31] = 4095
  /\ adc.data[0] = 5
  /\ adc.data[1] = NONE

\* Does the word carry the tag DATA, HEADER or FOOTER and a channel the
\* module has?
DecodesCleanly(w) ==
  /\ TagOf(w) \in {DATA_BITS, HEADER_BITS, FOOTER_BITS}
  /\ TagOf(w) = DATA_BITS => ChannelOf(w) < NChannels

\* C8: for a bank that is present, unpack_adc returns true exactly when
\* every word carries the tag DATA, HEADER or FOOTER and decodes without
\* error.
C8_SuccessIffEveryWordDecodes ==
  (adcOp = "unpack_adc" /\ adcFound) =>
    (adcRet <=> \A i \in DOMAIN adcBank : DecodesCleanly(adcBank[i]))

\* What unpack_adc returns for a bank that is present: true exactly when
\* every word carries one of the four tags of the dispatch table, INVALID
\* among them.
AdcSuccessIffEveryTagInTable ==
  (adcOp = "unpack_adc" /\ adcFound) =>
    (adcRet <=> \A i \in DOMAIN adcBank :
                  TagOf(adcBank[i]) \in {DATA_BITS, HEADER_BITS, FOOTER_BITS,
                                         INVALID_BITS})

\* C9: the value unpack_adc returns for an absent bank differs from the one
\* it returns for a bank that is present and holds a word that fails to
\* decode.
C9_NotFoundDistinctFromFailure ==
  (adcOp = "unpack_adc" /\ ~adcFound) =>
    \A b \in AdcBanks :
      (\E i \in DOMAIN b : TagOf(b[i]) = 1) => unpack_adc(TRUE, b, adc).ret # adcRet

HasNone(arr) == \E i \in DOMAIN arr : arr[i] = NONE

\* The sum of the elements of arr that are not NONE.
RECURSIVE SumOfValid(_, _)
SumOfValid(arr, n) ==
  IF n = 0 THEN 0
  ELSE SumOfValid(arr, n - 1) + (IF arr[n] = NONE THEN 0 ELSE arr[n])

\* C10 as stated: a derivation with a NONE input yields NO_DATA, for
\* calculate_tof and for calculate_sum alike.
C10_NoneYieldsNoData ==
  /\ (fnOp = "calculate_tof" /\ (fnT1 = NONE \/ fnT2 = NONE)) => fnResult = NO_DATA
  /\ (fnOp = "calculate_sum" /\ HasNone(fnArr)) => fnResult = NO_DATA

\* C10 as amended: calculate_tof yields NO_DATA when t1 or t2 is NONE and
\* t1 - t2 otherwise; calculate_sum skips the NONE elements and yields the
\* sum of the valid ones (0 when there is none).
C10_TofPropagatesSumSkips ==
  /\ fnOp = "calculate_tof" =>
       fnResult = (IF fnT1 = NONE \/ fnT2 = NONE THEN NO_DATA ELSE fnT1 - fnT2)
  /\ fnOp = "calculate_sum" => fnResult = SumOfValid(fnArr, Len(fnArr))

C10_Witness ==
  /\ fnOp = "calculate_sum"
  /\ HasNone(fnArr)
  /\ Len(fnArr) = 3
  /\ fnResult = 3

\* C11: after the assembly of an event the module record depends on that
\* event's words alone: every channel and the overflow flag, the underflow
\* flag, n_present and count are what the words make of a fresh record, and
\* nothing is left over from the event before.
C11_AssemblyReplacesState ==
  [][(adcOp = "assemble" /\ adcOp' = "assemble") =>
       adc' = unpack_adc(adcFound', adcBank', AdcDefault).module]_vars

\* What the assembly does replace: the channels.
AdcAssemblyReplacesChannels ==
  adcOp = "assemble" =>
    adc.data = unpack_adc(adcFound, adcBank, AdcDefault).module.data

\* The step is a call of UnpackMidasEvent in coincidence mode.
UnpacksInCoincMode == ~singlesMode /\ lastOp'.op \in {"push", "unpack"}

\* The step handles an end-of-run event in coincidence mode.
UnpacksEor ==
  ~singlesMode /\ lastOp'.op = "unpack" /\ lastOp'.event.sub = MIDAS_EOR

CodeOf(evtId) ==
  IF evtId \in {MIDAS_BOR, MIDAS_EOR} THEN DRAGON_RUN_PARAMETERS ELSE evtId

SyncIds == {DRAGON_HEAD_SCALER, DRAGON_TAIL_SCALER, MIDAS_BOR, MIDAS_EOR}

\* In coincidence mode a head or tail event is pushed: it is counted, and it
\* is left pending or is in the coincidence the push emitted.
HeadTailPushed ==
  /\ (~singlesMode /\ lastOp'.op = "unpack") =>
       lastOp'.event.sub \notin {DRAGON_HEAD_EVENT, DRAGON_TAIL_EVENT}
  /\ lastOp'.op = "push" =>
       LET e == lastOp'.event
       IN /\ e.sub \in {DRAGON_HEAD_EVENT, DRAGON_TAIL_EVENT}
          /\ fDiag'.pushedHead + fDiag'.pushedTail
               = fDiag.pushedHead + fDiag.pushedTail + 1
          /\ \/ /\ pending' = Append(pending, e)
                /\ coincs' = coincs
             \/ /\ Len(pending') = Len(pending) - 1
                /\ Len(coincs') = Len(coincs) + 1
                /\ e \in {coincs'[Len(coincs')].fGamma,
                           coincs'[Len(coincs')].fHeavyIon}

\* In coincidence mode a scaler or run-boundary event leaves the queue alone
\* and its code is the list returned.
SyncBypassesQueue ==
  (~singlesMode /\ lastOp'.op = "unpack" /\ lastOp'.event.sub \in SyncIds) =>
    /\ UNCHANGED <<pending, coincs, singles, fDiag>>
    /\ fUnpacked' = <<CodeOf(lastOp'.event.sub)>>

UnpacksRunBoundary ==
  /\ ~singlesMode
  /\ lastOp'.op = "unpack"
  /\ lastOp'.event.sub \in {MIDAS_BOR, MIDAS_EOR}

\* C13 as stated: head and tail events are pushed, scaler and run-boundary
\* events bypass the queue and are handled in the call, and the handling of
\* a run boundary resets the detector records and reloads the run
\* parameters.
C13_RoutingResetsAtRunBoundary ==
  [][/\ HeadTailPushed
     /\ SyncBypassesQueue
     /\ UnpacksRunBoundary =>
          /\ fRunpar' = "read"
          /\ fHead'.state = "reset"
          /\ fTail'.state = "reset"]_vars

\* C13 as amended: head and tail events are pushed, scaler and run-boundary
\* events bypass the queue and are handled in the call; the handling of a
\* run boundary reloads the run parameters and resets nothing - the detector
\* records and the scalers stay as they were; what is reset at the begin of
\* a run (the scalers, the run parameters, not the detector records) is
\* reset by HandleBor.
C13_RoutingReloadsAtRunBoundary ==
  [][/\ HeadTailPushed
     /\ SyncBypassesQueue
     /\ UnpacksRunBoundary =>
          /\ fRunpar' = "read"
          /\ UNCHANGED <<fHead, fTail, fCoinc, fHeadScaler, fTailScaler>>
     /\ lastOp'.op = "bor" =>
          /\ fHeadScaler' = "reset" /\ fTailScaler' = "reset"
          /\ fRunpar' = "reset"
          /\ UNCHANGED <<fHead, fTail, fCoinc, pending>>]_vars

C13_Witness ==
  /\ ~singlesMode
  /\ lastOp.op = "unpack"
  /\ lastOp.event.sub = MIDAS_BOR
  /\ fUnpacked = <<DRAGON_RUN_PARAMETERS>>
  /\ fRunpar = "read"
  /\ fHeadScaler = "unpacked"
  /\ Len(pending) = 1
  /\ pending[1].sub = DRAGON_TAIL_EVENT

\* The step is UnpackMidasEvent in singles mode for an event of id evtId.
UnpacksInSinglesMode(evtId) ==
  singlesMode /\ lastOp'.op = "unpack" /\ lastOp'.event.sub = evtId

C14_Step ==
  /\ singlesMode' = singlesMode
  /\ UnpacksInSinglesMode(DRAGON_HEAD_EVENT) =>
       /\ fHead' = [state |-> "calculated", event |-> lastOp'.event]
       /\ fUnpacked' = <<DRAGON_HEAD_EVENT>>
       /\ UNCHANGED <<fTail, pending>>
  /\ UnpacksInSinglesMode(DRAGON_TAIL_EVENT) =>
       /\ fTail' = [state |-> "calculated", event |-> lastOp'.event]
       /\ fUnpacked' = <<DRAGON_TAIL_EVENT>>
       /\ UNCHANGED <<fHead, pending>>

\* C14: the mode never changes - no queue is ever used in singles mode, and
\* in coincidence mode head and tail events always go to the queue - and in
\* singles mode a head or tail event is assembled (reset, unpack, calculate)
\* from that event within the call, which returns exactly that event's code.
C14_ModeFixedSinglesAssembled ==
  /\ [](singlesMode => (pending = <<>> /\ arrival = 0 /\ coincs = <<>>))
  /\ [][C14_Step]_vars

C14_Witness ==
  /\ singlesMode
  /\ lastOp.op = "unpack"
  /\ lastOp.event.sub = DRAGON_HEAD_EVENT
  /\ fUnpacked = <<DRAGON_HEAD_EVENT>>
  /\ fHead = [state |-> "calculated", event |-> lastOp.event]
  /\ fTail.state = "calculated"
  /\ fTail.event.ts # fHead.event.ts
  /\ fHeadScaler = "unpacked"

\* The operations that run a push or a flush of the queue.
QueueOps == {"push", "flush", "flush_iterative", "flush_null"}

\* C15 as stated: a step of any operation that runs no push or flush of the
\* queue - HandleBor, UnpackMidasEvent for an event not queued,
\* Process(Diagnostics*) - leaves every Diagnostics counter as it was.
C15_OnlyQueueChangesDiag ==
  [][lastOp'.op \notin QueueOps => fDiag' = fDiag]_vars

\* C15 as amended: UnpackMidasEvent for an event not queued and
\* Process(Diagnostics*) leave every counter as it was; HandleBor is the one
\* operation outside the queue that touches them, and it resets all of them
\* to zero.
C15_OnlyQueueAndBorChangeDiag ==
  [][/\ lastOp'.op \in {"unpack", "diagnostics"} => fDiag' = fDiag
     /\ lastOp'.op = "bor" => fDiag' = DiagZero
     /\ lastOp'.op \in QueueOps \cup {"unpack", "diagnostics", "bor"}]_vars

C15_Witness ==
  /\ lastOp.op = "bor"
  /\ fDiag = DiagZero
  /\ Len(singles) = 1
  /\ arrival = 1

\* C16: is_valid of one value is true exactly when the value is not NONE;
\* each form with two to ten values is true exactly when every one of its
\* values is valid; is_valid(arr, L) is true exactly when each of the first
\* L elements is valid, so it is true for L = 0.
C16_IsValidIsConjunction ==
  /\ fnOp = "is_valid" =>
       (fnValid <=> \A i \in 1 .. Len(fnArr) : fnArr[i] # NONE)
  /\ fnOp = "is_valid_array" =>
       /\ fnValid <=> \A i \in 1 .. fnT1 : fnArr[i] # NONE
       /\ fnT1 = 0 => fnValid

C16_Witness ==
  /\ fnOp = "is_valid_array"
  /\ Len(fnArr) = 3
  /\ fnT1 = 2
  /\ fnArr[1] = -2
  /\ fnArr[3] = NONE
  /\ fnValid

\* A failing word: the INVALID tag, a tag that is none of the four, or a
\* DATA word whose channel the module does not have.
Fails(w) ==
  \/ TagOf(w) \notin {DATA_BITS, HEADER_BITS, FOOTER_BITS}
  \/ TagOf(w) = DATA_BITS /\ ChannelOf(w) >= NChannels

KeepsWord(w) == ~Fails(w)

WithoutFailing(bank) == SelectSeq(bank, KeepsWord)

C17_Step ==
  (adcOp' = "unpack_adc" /\ adcFound') =>
    /\ adc' = unpack_adc(TRUE, WithoutFailing(adcBank'), adc).module
    /\ (\A i \in DOMAIN adcBank' : Fails(adcBank'[i])) => adc' = adc
    /\ \A i \in DOMAIN adcBank' :
         (/\ TagOf(adcBank'[i]) = DATA_BITS
          /\ ~Fails(adcBank'[i])
          /\ \A j \in DOMAIN adcBank' : j > i => Fails(adcBank'[j]))
         => adc'.data[ChannelOf(adcBank'[i])] = ValueOf(adcBank'[i])

\* C17: the record after the scan of a bank is the record the bank gives
\* with its failing words removed - a bank of failing words alone leaves the
\* record as it was, and a DATA word is decoded whatever failing words come
\* before or after it.
C17_FailingWordIsolated == [][C17_Step]_vars

C17_Witness ==
  /\ adcOp = "unpack_adc"
  /\ adcFound
  /\ Len(adcBank) = 2
  /\ TagOf(adcBank[1]) = 1
  /\ TagOf(adcBank[2]) = DATA_BITS
  /\ ChannelOf(adcBank[2]) = 0
  /\ adc.data[0] = 5
  /\ ~adcRet

\* C18: on a singles-mode Unpacker FlushQueue and FlushQueueIterative
\* complete as on an empty queue: no fault, nothing emitted or counted, and 0
\* returned.
C18_FlushSafeInSinglesMode ==
  [][(singlesMode /\ lastOp'.op \in {"flush", "flush_iterative", "flush_null"}) =>
       /\ ~fault'
       /\ ret' = 0
       /\ UNCHANGED <<pending, singles, fDiag, fUnpacked>>]_vars

\* What holds in coincidence mode, where the queue exists: neither flush
\* faults.
FlushSafeInCoincMode ==
  [][(~singlesMode /\ lastOp'.op \in {"flush", "flush_iterative"}) => ~fault']_vars

\* comp(a, b) = r is what a strict weak ordering gives: never comp(a, a),
\* never both comp(a, b) and comp(b, a), comp transitive, and being
\* unordered either way transitive too.
StrictWeakAt(comp(_, _), a, b, r) ==
  /\ a = b => ~r
  /\ r => ~comp(b, a)
  /\ \A c \in Samples : (r /\ comp(b, c)) => comp(a, c)
  /\ \A c \in Samples :
       (~r /\ ~comp(b, a) /\ ~comp(b, c) /\ ~comp(c, b)) =>
         (~comp(a, c) /\ ~comp(c, a))

\* C19: less_and_valid and greater_and_valid are strict weak orderings over
\* all values, NONE among them; greater_and_valid orders every valid value
\* before every invalid one, less_and_valid every invalid one before every
\* valid one.
C19_StrictWeakOrderings ==
  /\ fnOp = "greater_and_valid" =>
       /\ StrictWeakAt(greater_and_valid, fnT1, fnT2, fnValid)
       /\ (fnT1 # NONE /\ fnT2 = NONE) => fnValid
       /\ fnT1 = NONE => ~fnValid
  /\ fnOp = "less_and_valid" =>
       /\ StrictWeakAt(less_and_valid, fnT1, fnT2, fnValid)
       /\ (fnT1 = NONE /\ fnT2 # NONE) => fnValid
       /\ fnT2 = NONE => ~fnValid

\* What holds: greater_and_valid is a strict weak ordering with the invalid
\* values last, and less_and_valid is one over the valid values.
GreaterAndValidIsStrictWeak ==
  /\ fnOp = "greater_and_valid" =>
       /\ StrictWeakAt(greater_and_valid, fnT1, fnT2, fnValid)
       /\ (fnT1 # NONE /\ fnT2 = NONE) => fnValid
       /\ fnT1 = NONE => ~fnValid
  /\ (fnOp = "less_and_valid" /\ fnT1 # NONE /\ fnT2 # NONE) =>
       (fnValid <=> fnT1 < fnT2)

\* Every event pushed is accounted for by the counters.
DiagBalance ==
  fDiag.pushedHead + fDiag.pushedTail
    = 2 * fDiag.matches + fDiag.unmatched + Len(pending)

\* The match counter moves with the coincidences emitted, the unmatched
\* counter with the events evicted.
DiagFollowsOutput ==
  /\ fDiag'.matches - fDiag.matches = Len(coincs') - Len(coincs)
  /\ fDiag'.unmatched - fDiag.unmatched = Len(singles') - Len(singles)
  /\ Len(coincs') - Len(coincs) \in {0, 1}
  /\ Len(singles') - Len(singles) = Len(pending) - Len(pending')
       - 2 * (Len(coincs') - Len(coincs))
       + (IF lastOp'.op = "push" THEN 1 ELSE 0)

\* C20: from an empty queue and zeroed counters, after any pushes and
\* flushes, pushed heads + pushed tails = 2 * matches + unmatched + pending;
\* the match counter rises by one per coincidence emitted and the unmatched
\* counter by one per event evicted.
C20_DiagnosticsAccountForEvents == []DiagBalance /\ [][DiagFollowsOutput]_vars

C20_Witness ==
  /\ fDiag.pushedHead = 2
  /\ fDiag.pushedTail = 1
  /\ fDiag.matches = 1
  /\ fDiag.unmatched = 1
  /\ pending = <<>>
  /\ Len(coincs) = 1
  /\ Len(singles) = 1

\* The channels that the accepted DATA words of a bank address: the words
\* with the tag DATA and a channel the module has.
AddressedBy(bank) ==
  { ChannelOf(bank[i]) : i \in { j \in DOMAIN bank :
                                   /\ TagOf(bank[j]) = DATA_BITS
                                   /\ ChannelOf(bank[j]) < NChannels } }

\* Every channel holds the sentinel or a 12-bit value.
ChannelsInRange ==
  \A c \in 0 .. NChannels - 1 : adc.data[c] = NONE \/ adc.data[c] \in 0 .. 4095

\* A reset followed by the words of one bank: the channels that are NONE
\* are those no accepted DATA word of the bank addressed.
NoneIffNotAddressed ==
  adcOp = "assemble" =>
    \A c \in 0 .. NChannels - 1 :
      adc.data[c] = NONE <=> c \notin AddressedBy(adcBank)

\* One call, whatever came before it: a reset leaves every channel NONE, a
\* decoding leaves NONE the channels that were NONE and that none of its
\* accepted DATA words addressed, and every channel such a word addressed
\* holds a value in 0..4095 that is_valid accepts.
C21_Step ==
  /\ adcOp' = "reset" =>
       \A c \in 0 .. NChannels - 1 : adc'.data[c] = NONE
  /\ adcOp' \in {"unpack_adc_data", "unpack_adc"} =>
       \A c \in 0 .. NChannels - 1 :
         adc'.data[c] = NONE <=>
           (adc.data[c] = NONE /\ c \notin AddressedBy(adcBank'))
  /\ adcOp' \in {"unpack_adc_data", "unpack_adc", "assemble"} =>
       \A c \in AddressedBy(adcBank') :
         /\ adc'.data[c] \in 0 .. 4095
         /\ is_valid(adc'.data[c])

\* C21: with NONE = -1, a channel addressed by an accepted DATA word holds a
\* value in 0..4095 and is_valid is true of it; after a reset followed by
\* any sequence of decoded words a channel is NONE exactly when no accepted
\* DATA word addressed it.
C21_WrittenChannelIsValid ==
  /\ [](NONE = -1 /\ ChannelsInRange /\ NoneIffNotAddressed)
  /\ [][C21_Step]_vars

\* An event whose bank writes the value 0 to channel 0 and the value 4095 to
\* channel 31: both are valid, the channels not addressed are NONE.
C21_Witness ==
  /\ adcOp = "assemble"
  /\ adcFound
  /\ Len(adcBank) = 2
  /\ AddressedBy(adcBank) = {0, 31}
  /\ adc.data[0] = 0
  /\ adc.data[31] = 4095
  /\ is_valid2(adc.data[0], adc.data[31])
  /\ adc.data[1] = NONE

====
